---- MODULE Spec2Model ----
(***************************************************************************)
(* Model of the mock-test prediction engine of the quiz platform           *)
(* (src/src/services/prediction_service.py) together with the part of the  *)
(* session store it reads, the prediction endpoints                        *)
(* (src/src/api/endpoints/predictions.py) and the prediction store         *)
(* (src/src/repositories/prediction_repository.py), and of the quiz-taking *)
(* workflow that writes the session store                                  *)
(* (src/src/services/quiz_service.py).                                     *)
(*                                                                         *)
(* Number representations                                                  *)
(*   - text is a sequence of one-character strings, so that split(),       *)
(*     lower(), upper(), replace() and the substring test are computed;    *)
(*   - an overall percentage is an integer number of percentage points,    *)
(*     None is the integer -1;                                             *)
(*   - predicted_percentile is an exact rational [num, den] in lowest      *)
(*     terms (the code's float arithmetic without its rounding error);     *)
(*   - quantities that pass through a square root or are rounded by the    *)
(*     code are fixed-point: "milli" values are thousandths, confidence    *)
(*     is in ten-thousandths, the score range is in hundredths (the code   *)
(*     rounds it to 2 decimals).                                           *)
(***************************************************************************)
EXTENDS Integers, Sequences, FiniteSets, TLC

VARIABLES sessions, now, target_exam, mock_sessions, path, response,
          predictions, inflight, http, listing, questions, answers, starts

vars == <<sessions, now, target_exam, mock_sessions, path, response,
          predictions, inflight, http, listing, questions, answers, starts>>

\* the request trace of a direct service call, the API side of the state and
\* the quiz-taking side
trace == <<target_exam, mock_sessions, path, response>>
api == <<predictions, inflight, http, listing>>
workflow == <<questions, answers, starts>>

(***************************************************************************)
(* Bounds of the model                                                     *)
(***************************************************************************)
MaxSessions == 3
MaxLongSessions == 10
MaxClockSessions == 4
MaxNow == 270

None == -1

(***************************************************************************)
(* Arithmetic helpers                                                      *)
(***************************************************************************)
Max(a, b) == IF a >= b THEN a ELSE b
Min(a, b) == IF a <= b THEN a ELSE b

RECURSIVE GCD(_, _)
GCD(a, b) == IF b = 0 THEN a ELSE GCD(b, a % b)

\* the rational n/d (d # 0) in lowest terms with a positive denominator
Rat(n, d) ==
    LET s == IF d < 0 THEN -1 ELSE 1
        a == IF n < 0 THEN -n ELSE n
        g == GCD(a, s * d)
    IN  [num |-> (s * n) \div g, den |-> (s * d) \div g]

RatLt(x, y) == x.num * y.den < y.num * x.den
RatLe(x, y) == x.num * y.den <= y.num * x.den
RatAdd(x, y) == Rat(x.num * y.den + y.num * x.den, x.den * y.den)
RatMax(x, y) == IF RatLt(x, y) THEN y ELSE x
RatMin(x, y) == IF RatLt(y, x) THEN y ELSE x

\* <<floor(n * 10^k / d), remainder>> by long division, for n >= 0 and d > 0
RECURSIVE LongDiv(_, _, _)
LongDiv(n, d, k) ==
    IF k = 0 THEN <<n \div d, n % d>>
    ELSE LET p == LongDiv(n, d, k - 1)
         IN  <<p[1] * 10 + (p[2] * 10) \div d, (p[2] * 10) % d>>

FixDiv(n, d, k) == LongDiv(n, d, k)[1]

RECURSIVE SqrtSearch(_, _, _)
SqrtSearch(n, lo, hi) ==
    IF lo >= hi THEN lo
    ELSE LET mid == (lo + hi + 1) \div 2
         IN  IF mid * mid <= n THEN SqrtSearch(n, mid, hi)
                               ELSE SqrtSearch(n, lo, mid - 1)

\* floor of the square root of n >= 0
ISqrt(n) == SqrtSearch(n, 0, Min(n, 46340))

RECURSIVE SumSeq(_)
SumSeq(s) == IF s = <<>> THEN 0 ELSE s[1] + SumSeq(Tail(s))

RECURSIVE SumSquares(_)
SumSquares(s) == IF s = <<>> THEN 0 ELSE s[1] * s[1] + SumSquares(Tail(s))

\* Python slices s[-k:] and s[:-k]
LastK(s, k) == IF Len(s) <= k THEN s ELSE SubSeq(s, Len(s) - k + 1, Len(s))
AllButLastK(s, k) == IF Len(s) <= k THEN <<>> ELSE SubSeq(s, 1, Len(s) - k)

\* Truthy as the test `x is not None`: 0 is kept
TruthyNotNone(x) == x # None

\* Python truthiness of an Optional number: None and 0 are both false
Truthy(x) == x # None /\ x # 0

(***************************************************************************)
(* Text: str.lower, str.upper, str.replace(" ", "_"), str.split, `in`      *)
(***************************************************************************)
UpperChars == <<"A","B","C","D","E","F","G","H","I","J","K","L","M",
                "N","O","P","Q","R","S","T","U","V","W","X","Y","Z">>
LowerChars == <<"a","b","c","d","e","f","g","h","i","j","k","l","m",
                "n","o","p","q","r","s","t","u","v","w","x","y","z">>

OtherChars == <<" ", "_", "0", "1", "2", "3", "4", "5", "6", "7", "8", "9", "None">>

Alphabet == {UpperChars[i] : i \in 1..26} \cup {LowerChars[i] : i \in 1..26}
                \cup {OtherChars[i] : i \in 1..Len(OtherChars)}

LowerOf == [c \in Alphabet |->
               IF \E i \in 1..26 : UpperChars[i] = c
               THEN LowerChars[CHOOSE i \in 1..26 : UpperChars[i] = c] ELSE c]
UpperOf == [c \in Alphabet |->
               IF \E i \in 1..26 : LowerChars[i] = c
               THEN UpperChars[CHOOSE i \in 1..26 : LowerChars[i] = c] ELSE c]

lower(s) == [i \in 1..Len(s) |-> LowerOf[s[i]]]
upper(s) == [i \in 1..Len(s) |-> UpperOf[s[i]]]
replace_space_underscore(s) == [i \in 1..Len(s) |-> IF s[i] = " " THEN "_" ELSE s[i]]

\* needle in hay
contains(hay, needle) ==
    \E i \in 0..(Len(hay) - Len(needle)) :
        SubSeq(hay, i + 1, i + Len(needle)) = needle

\* str.split(): the whitespace-delimited tokens of s
RECURSIVE SplitFrom(_, _, _)
SplitFrom(s, i, cur) ==
    IF i > Len(s) THEN (IF cur = <<>> THEN <<>> ELSE <<cur>>)
    ELSE IF s[i] = " "
         THEN (IF cur = <<>> THEN <<>> ELSE <<cur>>) \o SplitFrom(s, i + 1, <<>>)
         ELSE SplitFrom(s, i + 1, Append(cur, s[i]))

split(s) == SplitFrom(s, 1, <<>>)

(***************************************************************************)
(* Documents.  A Quiz has a quiz_type, a title and an optional category;   *)
(* a QuizSession carries the fields the prediction engine reads.           *)
(***************************************************************************)
NoneText == <<"None">>

Quizzes ==
    [q_all |-> [quiz_type |-> "mock_test",
                title |-> <<"C","A","T"," ","J","E","E"," ","N","E","E","T"," ","G","A","T","E"," ","X","A","T"," ","M","o","c","k">>,
                category |-> NoneText],
     q_cat |-> [quiz_type |-> "mock_test",
                title |-> <<"C","A","T"," ","M","o","c","k"," ","1">>,
                category |-> NoneText],
     q_tagged |-> [quiz_type |-> "mock_test",
                   title |-> <<"M","o","c","k"," ","2">>,
                   category |-> <<"c","a","t"," ","2","0","2","5">>],
     q_quiz |-> [quiz_type |-> "practice",
                 title |-> <<"C","A","T"," ","d","r","i","l","l">>,
                 category |-> <<"C","A","T">>]]

QuizIds == DOMAIN Quizzes

\* Quiz.get(quiz_id): the document, or NoQuiz when it cannot be resolved
NoQuiz == [quiz_type |-> "none", title |-> <<>>, category |-> NoneText]
QuizGet(quiz_id) == IF quiz_id \in QuizIds THEN Quizzes[quiz_id] ELSE NoQuiz

SubjQuant == <<"Q","u","a","n","t">>
SubjDI == <<"D","a","t","a"," ","I","n","t","e","r","p","r","e","t","a","t","i","o","n">>
SubjVA == <<"v","e","r","b","a","l"," ","a","b","i","l","i","t","y">>
SubjLR == <<"L","o","g","i","c","a","l"," ","R","e","a","s","o","n","i","n","g">>

\* one entry of QuizSession.subject_scores: {correct, total, percentage}
ScoreData(c, t, p) == [type |-> "dict", correct |-> c, total |-> t, percentage |-> p]
\* a float stored in a result's subject_percentiles, in thousandths
FloatValue(m) == [type |-> "float", value |-> m]

EmptyDict == <<>>

ExamCAT == <<"C","A","T"," ","2","0","2","5">>
ExamCatLower == <<"c","a","t"," ","m","o","c","k">>
ExamJEE == <<"J","E","E">>
ExamNEET == <<"N","E","E","T"," ","2","0","2","5">>
ExamGATE == <<" ","G","A","T","E"," ","2","0","2","6">>
ExamXAT == <<"X","A","T"," ","2","0","2","5">>

TargetExams == {ExamCAT, ExamCatLower, ExamJEE, ExamNEET, ExamGATE, ExamXAT}

(***************************************************************************)
(* Attempt history provider: PredictionService._get_user_mock_sessions     *)
(***************************************************************************)
CutoffDays == 180

\* sorted(xs, key=started_at): stable insertion sort
RECURSIVE InsertByStart(_, _)
InsertByStart(sorted, x) ==
    IF sorted = <<>> THEN <<x>>
    ELSE IF x.started_at < sorted[Len(sorted)].started_at
         THEN Append(InsertByStart(SubSeq(sorted, 1, Len(sorted) - 1), x),
                     sorted[Len(sorted)])
         ELSE Append(sorted, x)

RECURSIVE SortByStart(_)
SortByStart(xs) ==
    IF xs = <<>> THEN <<>>
    ELSE InsertByStart(SortByStart(SubSeq(xs, 1, Len(xs) - 1)), xs[Len(xs)])

\* the sessions that the query for user_id returns
FoundSessions(store, user_id, clock) ==
    SelectSeq(store, LAMBDA x : x.user_id = user_id
                                /\ x.status = "completed"
                                /\ x.started_at >= clock - CutoffDays)

IsMockQuiz(quiz) == quiz.quiz_type = "mock_test"

\* exam_type.lower() in quiz.title.lower()
TitleMatches(quiz, exam_type) == contains(lower(quiz.title), lower(exam_type))

\* exam_type.lower() in quiz.category.lower(); raises when category is None
CategoryRaises(quiz, exam_type) ==
    ~TitleMatches(quiz, exam_type) /\ quiz.category = NoneText

CategoryMatches(quiz, exam_type) == contains(lower(quiz.category), lower(exam_type))

MockQuizIds == {q \in QuizIds : IsMockQuiz(Quizzes[q])}

\* the mock-test quizzes on which the relevance test raises AttributeError
RaisingQuizIds(exam_type) ==
    {q \in MockQuizIds : CategoryRaises(Quizzes[q], exam_type)}

\* the mock-test quizzes that pass the relevance test
RelevantQuizIds(exam_type) ==
    {q \in MockQuizIds : TitleMatches(Quizzes[q], exam_type)
                           \/ CategoryMatches(Quizzes[q], exam_type)}

FilterRelevant(mocks, tokens) ==
    IF mocks = <<>> THEN [error |-> "none", list |-> <<>>]
    ELSE IF tokens = <<>> THEN [error |-> "IndexError", list |-> <<>>]
    ELSE IF \E i \in 1..Len(mocks) : mocks[i].quiz_id \in RaisingQuizIds(tokens[1])
         THEN [error |-> "AttributeError", list |-> <<>>]
    ELSE [error |-> "none",
          list |-> SortByStart(SelectSeq(mocks,
                      LAMBDA x : x.quiz_id \in RelevantQuizIds(tokens[1])))]

\* get_user_mock_sessions that reads quiz.quiz_type without testing `quiz`:
\* an attempt whose quiz cannot be resolved raises AttributeError
get_user_mock_sessions_strict(store, user_id, clock, exam) ==
    IF \E i \in 1..Len(store) :
           /\ store[i].user_id = user_id
           /\ store[i].status = "completed"
           /\ store[i].started_at >= clock - CutoffDays
           /\ store[i].quiz_id \notin QuizIds
    THEN [error |-> "AttributeError", list |-> <<>>]
    ELSE FilterRelevant(SelectSeq(FoundSessions(store, user_id, clock),
                                  LAMBDA x : x.quiz_id \in MockQuizIds),
                        split(exam))

\* "none" and the history, or the exception the loop raises
get_user_mock_sessions(store, user_id, clock, exam) ==
    FilterRelevant(SelectSeq(FoundSessions(store, user_id, clock),
                             LAMBDA x : x.quiz_id \in MockQuizIds),
                   split(exam))

(***************************************************************************)
(* Statistics over the overall percentages                                 *)
(***************************************************************************)
PercentageScores(ss) == [i \in 1..Len(ss) |-> ss[i].percentage_score]

\* [s.percentage_score for s in ss if s.percentage_score]
TruthyScores(ss) == SelectSeq(PercentageScores(ss), Truthy)

\* statistics.mean as an exact rational (xs non-empty)
Mean(xs) == Rat(SumSeq(xs), Len(xs))

\* n * sum(x^2) - sum(x)^2 = n * (n - 1) * statistics.variance(xs)
VarianceNumerator(xs) == Len(xs) * SumSquares(xs) - SumSeq(xs) * SumSeq(xs)

(***************************************************************************)
(* Trend analyzer: PredictionService._analyze_performance_trend            *)
(***************************************************************************)
analyze_performance_trend(ss) ==
    IF Len(ss) < 3 THEN "insufficient_data"
    ELSE LET recent_scores == TruthyScores(LastK(ss, 5))
             older_scores == TruthyScores(AllButLastK(ss, 5))
         IN  IF recent_scores = <<>> \/ older_scores = <<>> THEN "insufficient_data"
             ELSE LET nr == Len(recent_scores)
                      no == Len(older_scores)
                      \* improvement * nr * no
                      scaled == SumSeq(recent_scores) * no - SumSeq(older_scores) * nr
                  IN  IF scaled > 5 * nr * no THEN "improving"
                      ELSE IF scaled < -5 * nr * no THEN "declining"
                      ELSE "stable"

(***************************************************************************)
(* Candidate pool: PredictionService._get_estimated_candidates             *)
(***************************************************************************)
DefaultCandidates == 100000

Estimates ==
    [exam_type \in {<<"C","A","T">>, <<"J","E","E">>, <<"N","E","E","T">>, <<"G","A","T","E">>} |->
        IF exam_type = <<"C","A","T">> THEN 200000
        ELSE IF exam_type = <<"J","E","E">> THEN 1000000
        ELSE IF exam_type = <<"N","E","E","T">> THEN 1500000
        ELSE 800000]

get_estimated_candidates(exam) ==
    LET exam_type == upper(split(exam)[1])
    IN  IF exam_type \in DOMAIN Estimates THEN Estimates[exam_type]
        ELSE DefaultCandidates

\* RankOf that counts the candidates below the percentile instead of above:
\* int(total_candidates * percentile / 100)
RankOfAscending(total_candidates, percentile) ==
    ((total_candidates \div 100) * percentile.num) \div percentile.den

\* RankOf with round() in place of int()
RankOfRounded(total_candidates, percentile) ==
    LET n == (total_candidates \div 100) * (100 * percentile.den - percentile.num)
        q == n \div percentile.den
        r == n % percentile.den
    IN  IF 2 * r < percentile.den THEN q
        ELSE IF 2 * r > percentile.den THEN q + 1
        ELSE IF q % 2 = 0 THEN q ELSE q + 1

\* int(total_candidates * (100 - percentile) / 100) for a rational percentile
\* in [0, 100]; every pool size is a multiple of 100, so the quotient by 100
\* is taken first to keep the product small
RankOf(total_candidates, percentile) ==
    ((total_candidates \div 100) * (100 * percentile.den - percentile.num))
        \div percentile.den

(***************************************************************************)
(* Rank/percentile predictor:                                              *)
(* PredictionService._calculate_rank_percentile_prediction                 *)
(***************************************************************************)
TrendAdjustment(trend) ==
    IF trend = "improving" THEN 3 ELSE IF trend = "declining" THEN -2 ELSE 0

\* max(0, min(100, x)) on rationals
ClampPercentile(x) == RatMax(Rat(0, 1), RatMin(Rat(100, 1), x))

WeightedPercentile(ss) ==
    LET all_scores == TruthyScores(ss)
        avg_percentile == Mean(all_scores)
        recent_percentiles == TruthyScores(LastK(ss, 3))
        recent_avg == IF recent_percentiles # <<>> THEN Mean(recent_percentiles)
                      ELSE avg_percentile
    IN  \* recent_avg * 0.7 + avg_percentile * 0.3
        Rat(7 * recent_avg.num * avg_percentile.den
              + 3 * avg_percentile.num * recent_avg.den,
            10 * recent_avg.den * avg_percentile.den)

\* statistics.mean([]) raises StatisticsError when no score is truthy
RankPercentileRaises(ss) == TruthyScores(ss) = <<>>

PredictedPercentile(ss) ==
    ClampPercentile(RatAdd(WeightedPercentile(ss),
                           Rat(TrendAdjustment(analyze_performance_trend(ss)), 1)))

calculate_rank_percentile_prediction(ss, exam) ==
    LET predicted_percentile == PredictedPercentile(ss)
        total_candidates == get_estimated_candidates(exam)
    IN  [predicted_rank |-> Max(1, RankOf(total_candidates, predicted_percentile)),
         predicted_percentile |-> predicted_percentile]

(***************************************************************************)
(* Subject predictor: PredictionService._calculate_subject_predictions     *)
(* and _apply_subject_adjustments (values in thousandths)                  *)
(***************************************************************************)
HasSubjects(x) == DOMAIN x.subject_scores # {}

\* all_subjects: the union of the keys of every session's subject_scores
AllSubjects(ss) == UNION {DOMAIN ss[i].subject_scores : i \in 1..Len(ss)}

\* the percentages of one subject, in session order
SubjectScoreList(ss, subject) ==
    LET having == SelectSeq(ss, LAMBDA x : subject \in DOMAIN x.subject_scores)
    IN  [i \in 1..Len(having) |-> having[i].subject_scores[subject].percentage]

\* thousandths added per subject key
DifficultyAdjustments ==
    [subject_key \in {<<"q","u","a","n","t","i","t","a","t","i","v","e","_","a","p","t","i","t","u","d","e">>, <<"v","e","r","b","a","l","_","a","b","i","l","i","t","y">>, <<"d","a","t","a","_","i","n","t","e","r","p","r","e","t","a","t","i","o","n">>, <<"l","o","g","i","c","a","l","_","r","e","a","s","o","n","i","n","g">>} |->
        IF subject_key = <<"q","u","a","n","t","i","t","a","t","i","v","e","_","a","p","t","i","t","u","d","e">> THEN 0
        ELSE IF subject_key = <<"v","e","r","b","a","l","_","a","b","i","l","i","t","y">> THEN -1000
        ELSE IF subject_key = <<"d","a","t","a","_","i","n","t","e","r","p","r","e","t","a","t","i","o","n">> THEN 1000
        ELSE -500]

DifficultyAdj(subject) ==
    LET subject_key == replace_space_underscore(lower(subject))
    IN  IF subject_key \in DOMAIN DifficultyAdjustments
        THEN DifficultyAdjustments[subject_key] ELSE 0

\* max(0.9, 1 - variance / 1000) in ten-thousandths, 0.95 for one sample
ConsistencyFactor(historical_scores) ==
    LET n == Len(historical_scores)
    IN  IF n > 1
        THEN Max(9000, 10000 - FixDiv(VarianceNumerator(historical_scores),
                                      n * (n - 1), 1))
        ELSE 9500

apply_subject_adjustments(subject, base_percentile, historical_scores) ==
    (base_percentile * ConsistencyFactor(historical_scores)) \div 10000
        + DifficultyAdj(subject)

\* the recency-weighted base of one subject, in thousandths
SubjectBase(subject_scores) ==
    LET n == Len(subject_scores)
    IN  IF n >= 3
        THEN \* mean(last 3) * 0.7 + mean(all) * 0.3
             FixDiv(7 * SumSeq(LastK(subject_scores, 3)) * n
                      + 9 * SumSeq(subject_scores), 30 * n, 3)
        ELSE FixDiv(SumSeq(subject_scores), n, 3)

\* ClampMilli without the floor at 0: min(100, x)
ClampMilliUpper(x) == Min(100000, x)

ClampMilli(x) == Max(0, Min(100000, x))

calculate_subject_predictions(ss) ==
    [subject \in AllSubjects(ss) |->
        LET subject_scores == SubjectScoreList(ss, subject)
        IN  FloatValue(ClampMilli(
                apply_subject_adjustments(subject, SubjectBase(subject_scores),
                                          subject_scores)))]

(***************************************************************************)
(* Consistency and time efficiency (thousandths)                           *)
(***************************************************************************)
calculate_consistency_score(ss) ==
    LET scores == TruthyScores(ss)
        n == Len(scores)
    IN  IF n < 2 THEN 500
        ELSE IF SumSeq(scores) = 0 THEN 100
        ELSE LET \* (variance ** 0.5) / mean_score
                 coefficient_of_variation ==
                     ISqrt(FixDiv(n * VarianceNumerator(scores),
                                  (n - 1) * SumSeq(scores) * SumSeq(scores), 6))
             IN  Min(1000, Max(0, 1000 - 2 * coefficient_of_variation))

Timed(x) == Truthy(x.time_taken_minutes) /\ Truthy(x.time_limit_minutes)
            /\ x.time_limit_minutes > 0

SessionEfficiency(x) ==
    LET taken == x.time_taken_minutes
        limit == x.time_limit_minutes
    IN  IF taken >= limit THEN 950                       \* efficiency = 1.0
        ELSE IF 5 * taken < 4 * limit THEN FixDiv(5 * taken, 4 * limit, 3)
        ELSE IF 20 * taken <= 19 * limit THEN 1000
        ELSE FixDiv(19 * limit, 20 * taken, 3)

calculate_time_efficiency(ss) ==
    LET timed == SelectSeq(ss, Timed)
        efficiencies == [i \in 1..Len(timed) |-> SessionEfficiency(timed[i])]
    IN  IF timed = <<>> THEN 800 ELSE SumSeq(efficiencies) \div Len(timed)

(***************************************************************************)
(* Suggestion generator:                                                   *)
(* PredictionService._generate_improvement_suggestions                     *)
(* `order` is the iteration order of subject_predictions, which is the     *)
(* iteration order of the set all_subjects.                                *)
(***************************************************************************)
Suggestion(kind, subject) == [kind |-> kind, subject |-> subject]

SuggestionLimit == 5

SubjectOrders(subjects) ==
    {o \in [1..Cardinality(subjects) -> subjects] :
        \A i, j \in 1..Cardinality(subjects) : o[i] = o[j] => i = j}

RECURSIVE SubjectSuggestions(_, _)
SubjectSuggestions(order, subject_predictions) ==
    IF order = <<>> THEN <<>>
    ELSE LET percentile == subject_predictions[order[1]].value
             rest == SubjectSuggestions(Tail(order), subject_predictions)
         IN  IF percentile < 50000 THEN <<Suggestion("priority", order[1])>> \o rest
             ELSE IF percentile < 70000 THEN <<Suggestion("advanced", order[1])>> \o rest
             ELSE rest

\* the list `suggestions` when every check has run, before the cut
TriggeredSuggestions(ss, subject_predictions, order) ==
    LET time_part == IF calculate_time_efficiency(ss) < 800
                     THEN <<Suggestion("time_management", <<>>)>> ELSE <<>>
        consistency_part == IF calculate_consistency_score(ss) < 700
                            THEN <<Suggestion("consistency", <<>>)>> ELSE <<>>
        trend == analyze_performance_trend(ss)
        values == [i \in 1..Len(order) |-> subject_predictions[order[i]].value]
        trend_part ==
            IF trend = "declining" THEN <<Suggestion("review", <<>>)>>
            ELSE IF trend = "stable" /\ order # <<>>
                    /\ SumSeq(values) < 80000 * Len(values)
                 THEN <<Suggestion("breakthrough", <<>>)>>
            ELSE <<>>
    IN  time_part \o SubjectSuggestions(order, subject_predictions)
            \o consistency_part \o trend_part

\* generate_improvement_suggestions that keeps the last 5: suggestions[-5:]
generate_improvement_suggestions_last(ss, subject_predictions, order) ==
    LastK(TriggeredSuggestions(ss, subject_predictions, order), SuggestionLimit)

\* suggestions[:5]
generate_improvement_suggestions(ss, subject_predictions, order) ==
    LET suggestions == TriggeredSuggestions(ss, subject_predictions, order)
    IN  SubSeq(suggestions, 1, Min(SuggestionLimit, Len(suggestions)))

(***************************************************************************)
(* Confidence estimator: PredictionService._calculate_prediction_confidence*)
(* (ten-thousandths)                                                       *)
(***************************************************************************)
RECURSIVE LatestStart(_)
LatestStart(ss) ==
    IF Len(ss) = 1 THEN ss[1].started_at
    ELSE Max(ss[1].started_at, LatestStart(Tail(ss)))

\* ClampConfidence with the bounds 0 and 1 in place of 0.1 and 0.95
ClampConfidenceUnit(confidence) == Min(10000, Max(0, confidence))

\* min(0.95, max(0.1, confidence))
ClampConfidence(confidence) == Min(9500, Max(1000, confidence))

calculate_prediction_confidence(ss, clock) ==
    IF Len(ss) < 3 THEN 3000
    ELSE LET test_count_factor == Min(1000, Len(ss) * 100)
             consistency_factor == calculate_consistency_score(ss)
             days_since_last == clock - LatestStart(ss)
             recency_factor == Max(500, 1000 - FixDiv(days_since_last, 90, 3))
             complete_sessions ==
                 SelectSeq(ss, LAMBDA x : Truthy(x.percentage_score) /\ HasSubjects(x))
             completeness_factor == FixDiv(Len(complete_sessions), Len(ss), 3)
         IN  ClampConfidence(test_count_factor * 3 + consistency_factor * 3
                               + recency_factor * 2 + completeness_factor * 2)

(***************************************************************************)
(* Score range estimator: PredictionService._calculate_score_range         *)
(* (hundredths, after round(x, 2))                                         *)
(***************************************************************************)
\* round(x, 2) of a value given in thousandths
Round2(milli) == (milli + 5) \div 10

\* ScoreBand without the min(100, ...) on the upper end
ScoreBandUnclamped(mean_score, margin) ==
    [min |-> Round2(Max(0, mean_score - margin)),
     max |-> Round2(mean_score + margin),
     expected |-> Round2(mean_score)]

\* the band around the mean, rounded to 2 decimals
ScoreBand(mean_score, margin) ==
    [min |-> Round2(Max(0, mean_score - margin)),
     max |-> Round2(Min(100000, mean_score + margin)),
     expected |-> Round2(mean_score)]

calculate_score_range(ss, confidence) ==
    LET scores == TruthyScores(ss)
        n == Len(scores)
    IN  IF scores = <<>> THEN [min |-> 0, max |-> 10000]
        ELSE LET mean_score == FixDiv(SumSeq(scores), n, 3)
                 \* statistics.stdev in hundredths, 10 for a single score
                 std_dev == IF n > 1
                            THEN ISqrt(FixDiv(VarianceNumerator(scores), n * (n - 1), 4))
                            ELSE 1000
                 \* std_dev * (2 - confidence), in thousandths
                 margin == (std_dev * (20000 - confidence)) \div 1000
             IN  ScoreBand(mean_score, margin)

(***************************************************************************)
(* Preliminary prediction:                                                 *)
(* PredictionService._generate_preliminary_prediction                      *)
(***************************************************************************)
PredictionResult(rank, percentile, subjects, confidence, suggestions, trend, range) ==
    [kind |-> "result",
     predicted_rank |-> rank,
     predicted_percentile |-> percentile,
     subject_percentiles |-> subjects,
     confidence_score |-> confidence,
     improvement_suggestions |-> suggestions,
     performance_trend |-> trend,
     expected_score_range |-> range]

\* NeutralPrediction with the confidence of the 1-2 attempt branch
NeutralPredictionConfidence03 ==
    PredictionResult(50000, Rat(50, 1), EmptyDict, 3000,
                     <<Suggestion("take_more_mock_tests", <<>>),
                       Suggestion("build_fundamentals", <<>>)>>,
                     "insufficient_data",
                     [min |-> 0, max |-> 10000, expected |-> 5000])

NeutralPrediction ==
    PredictionResult(50000, Rat(50, 1), EmptyDict, 1000,
                     <<Suggestion("take_more_mock_tests", <<>>),
                       Suggestion("build_fundamentals", <<>>)>>,
                     "insufficient_data",
                     [min |-> 0, max |-> 10000, expected |-> 5000])

\* latest_session.percentage_score or 50.0
BasePercentile(latest_session) ==
    IF Truthy(latest_session.percentage_score) THEN latest_session.percentage_score
    ELSE 50

PreliminaryRank(total_candidates, base_percentile) ==
    RankOf(total_candidates, Rat(base_percentile, 1))

PreliminaryRange(base_percentile) ==
    [min |-> Max(0, (base_percentile - 20) * 100),
     max |-> Min(10000, (base_percentile + 20) * 100),
     expected |-> base_percentile * 100]

\* generate_preliminary_prediction that gives the 1-2 attempt result the
\* confidence 0.5
generate_preliminary_prediction_half(ss, exam) ==
    IF ss = <<>> THEN NeutralPrediction
    ELSE LET latest_session == ss[Len(ss)]
             base_percentile == BasePercentile(latest_session)
         IN  PredictionResult(
                 PreliminaryRank(get_estimated_candidates(exam), base_percentile),
                 Rat(base_percentile, 1),
                 latest_session.subject_scores,
                 5000,
                 <<Suggestion("take_3_more_mock_tests", <<>>),
                   Suggestion("identify_strengths", <<>>)>>,
                 "preliminary",
                 PreliminaryRange(base_percentile))

generate_preliminary_prediction(ss, exam) ==
    IF ss = <<>> THEN NeutralPrediction
    ELSE LET latest_session == ss[Len(ss)]
             base_percentile == BasePercentile(latest_session)
         IN  PredictionResult(
                 PreliminaryRank(get_estimated_candidates(exam), base_percentile),
                 Rat(base_percentile, 1),
                 latest_session.subject_scores,
                 3000,
                 <<Suggestion("take_3_more_mock_tests", <<>>),
                   Suggestion("identify_strengths", <<>>)>>,
                 "preliminary",
                 PreliminaryRange(base_percentile))

(***************************************************************************)
(* Orchestrator: PredictionService.generate_prediction                     *)
(***************************************************************************)
MinMockSessions == 3

Raised(error) == [kind |-> "error", error |-> error]
NoResponse == [kind |-> "none"]

FullPrediction(ss, clock, exam, order) ==
    LET performance_trend == analyze_performance_trend(ss)
        rank_percentile == calculate_rank_percentile_prediction(ss, exam)
        subject_percentiles == calculate_subject_predictions(ss)
        suggestions == generate_improvement_suggestions(ss, subject_percentiles, order)
        confidence == calculate_prediction_confidence(ss, clock)
        score_range == calculate_score_range(ss, confidence)
    IN  IF RankPercentileRaises(ss) THEN Raised("StatisticsError")
        ELSE PredictionResult(rank_percentile.predicted_rank,
                              rank_percentile.predicted_percentile,
                              subject_percentiles, confidence, suggestions,
                              performance_trend, score_range)

\* generate_prediction with <= in place of < in the history-length test
generate_prediction_le(ss, clock, exam, order) ==
    IF Len(ss) <= MinMockSessions
    THEN [path |-> "preliminary", response |-> generate_preliminary_prediction(ss, exam)]
    ELSE [path |-> "full", response |-> FullPrediction(ss, clock, exam, order)]

\* the branch taken and what the call returns or raises
generate_prediction(ss, clock, exam, order) ==
    IF Len(ss) < MinMockSessions
    THEN [path |-> "preliminary", response |-> generate_preliminary_prediction(ss, exam)]
    ELSE [path |-> "full", response |-> FullPrediction(ss, clock, exam, order)]

(***************************************************************************)
(* State machine                                                           *)
(*   sessions       the QuizSession documents, in insertion order          *)
(*   now            the clock, in days                                     *)
(*   target_exam    the target_exam of the service call being traced       *)
(*   mock_sessions  the history that call fetched                          *)
(*   path           idle, or the branch the call took                      *)
(*   response       what the call returned or raised                       *)
(*   predictions    the UserPrediction documents, in insertion order       *)
(*   inflight       per request slot, the /generate call in progress       *)
(*   http           the reply to the /generate call that finished last     *)
(*   listing        the documents the last list query returned             *)
(*   questions      the Question documents, in insertion order             *)
(*   answers        the Answer documents, in insertion order               *)
(*   starts         per caller, the start_quiz_session call in progress    *)
(***************************************************************************)
Users == {"u1", "u2"}

QuizSession(user_id, quiz_id, status, started_at, percentage_score, subject_scores, taken, limit) ==
    [user_id |-> user_id,
     quiz_id |-> quiz_id,
     status |-> status,
     started_at |-> started_at,
     percentage_score |-> percentage_score,
     subject_scores |-> subject_scores,
     time_taken_minutes |-> taken,
     time_limit_minutes |-> limit]

NoTarget == <<>>

\* the request slots of the API server and what a slot, the last reply and
\* the last listing hold when nothing has happened yet
MaxInflight == 2
Slots == 1..MaxInflight
IdleSlot == [pc |-> "idle"]
NoReply == [kind |-> "none"]
NoListing == [kind |-> "none"]

\* the concurrent callers of start_quiz_session
MaxStarters == 2
Starters == 1..MaxStarters
IdleCall == [pc |-> "idle"]

Init ==
    /\ sessions = <<>>
    /\ now = 0
    /\ target_exam = NoTarget
    /\ mock_sessions = <<>>
    /\ path = "idle"
    /\ response = NoResponse
    /\ predictions = <<>>
    /\ inflight = [slot \in Slots |-> IdleSlot]
    /\ http = NoReply
    /\ listing = NoListing
    /\ questions = <<>>
    /\ answers = <<>>
    /\ starts = [caller \in Starters |-> IdleCall]

\* a session document of user_id is written to the session store; a response
\* computed from the earlier store is no longer current
RecordSession(user_id, quiz_id, status, percentage_score, subject_scores, taken, limit) ==
    /\ sessions' = Append(sessions,
                          QuizSession(user_id, quiz_id, status, now,
                                      percentage_score, subject_scores,
                                      taken, limit))
    /\ target_exam' = NoTarget
    /\ mock_sessions' = <<>>
    /\ path' = "idle"
    /\ response' = NoResponse
    /\ UNCHANGED <<now, api, workflow>>

\* a completed attempt of user u1 is recorded in the session store
RecordAttempt(quiz_id, percentage_score, subject_scores, taken, limit) ==
    RecordSession("u1", quiz_id, "completed", percentage_score, subject_scores,
                  taken, limit)

\* the response to a request whose history fetch returned `fetched`
Respond(exam, fetched) ==
    IF fetched.error # "none"
    THEN /\ mock_sessions' = <<>>
         /\ path' = "fetch_failed"
         /\ response' = Raised(fetched.error)
    ELSE /\ mock_sessions' = fetched.list
         /\ \E order \in SubjectOrders(AllSubjects(fetched.list)) :
                LET call == generate_prediction(fetched.list, now, exam, order)
                IN  /\ path' = call.path
                    /\ response' = call.response

\* one call of generate_prediction(user_id, target_exam)
GeneratePredictionFor(user_id, exam) ==
    /\ path = "idle"
    /\ target_exam' = exam
    /\ Respond(exam, get_user_mock_sessions(sessions, user_id, now, exam))
    /\ UNCHANGED <<sessions, now, api, workflow>>

GeneratePrediction(exam) == GeneratePredictionFor("u1", exam)

\* the clock advances by `days`; the response on display is dropped
Tick(days) ==
    /\ now + days <= MaxNow
    /\ now' = now + days
    /\ target_exam' = NoTarget
    /\ mock_sessions' = <<>>
    /\ path' = "idle"
    /\ response' = NoResponse
    /\ UNCHANGED <<sessions, api, workflow>>

(***************************************************************************)
(* Prediction store: PredictionService.save_prediction and                 *)
(* PredictionRepository.  created_at is the position of the document in    *)
(* creation order: documents are created at distinct, increasing instants. *)
(***************************************************************************)
\* quiz_session_id = None, and the truthiness of an Optional[str]
NoneId == "None"
IdTruthy(x) == x # NoneId /\ x # ""

PredictionRequest(user_id, exam, quiz_session_id) ==
    [user_id |-> user_id, target_exam |-> exam, quiz_session_id |-> quiz_session_id]

\* the required str fields are present
RequestValid(request) ==
    request.user_id # NoneId /\ request.target_exam # NoneText

UserPrediction(request, prediction, created_at) ==
    [user_id |-> request.user_id,
     quiz_session_id |-> request.quiz_session_id,
     target_exam |-> request.target_exam,
     predicted_rank |-> prediction.predicted_rank,
     predicted_percentile |-> prediction.predicted_percentile,
     rank_confidence |-> prediction.confidence_score,
     percentile_confidence |-> prediction.confidence_score,
     subject_percentiles |-> prediction.subject_percentiles,
     improvement_suggestions |-> prediction.improvement_suggestions,
     performance_trend |-> prediction.performance_trend,
     expected_score_range |-> prediction.expected_score_range,
     created_at |-> created_at]

\* the field constraints of UserPrediction: predicted_rank gt=0,
\* predicted_percentile in [0, 100], the confidences in [0, 1]
UserPredictionValid(prediction) ==
    /\ prediction.predicted_rank > 0
    /\ RatLe(Rat(0, 1), prediction.predicted_percentile)
    /\ RatLe(prediction.predicted_percentile, Rat(100, 1))
    /\ prediction.confidence_score >= 0
    /\ prediction.confidence_score <= 10000

\* save_user_prediction that replaces the stored prediction of the same user
\* and target exam, when there is one
save_user_prediction_upsert(store, document) ==
    IF \E i \in 1..Len(store) : store[i].user_id = document.user_id
                                 /\ store[i].target_exam = document.target_exam
    THEN [i \in 1..Len(store) |->
             IF store[i].user_id = document.user_id
                /\ store[i].target_exam = document.target_exam
             THEN document ELSE store[i]]
    ELSE Append(store, document)

\* prediction.insert()
save_user_prediction(store, document) == Append(store, document)

\* "none" and the store after the insert, or the exception of the constructor
save_prediction(store, request, prediction) ==
    IF UserPredictionValid(prediction)
    THEN [error |-> "none",
          store |-> save_user_prediction(store,
                        UserPrediction(request, prediction, Len(store) + 1))]
    ELSE [error |-> "ValidationError", store |-> store]

\* sorted by created_at, most recent first: insertion sort
RECURSIVE InsertByCreatedDesc(_, _)
InsertByCreatedDesc(sorted, x) ==
    IF sorted = <<>> THEN <<x>>
    ELSE IF x.created_at > sorted[1].created_at THEN <<x>> \o sorted
    ELSE <<sorted[1]>> \o InsertByCreatedDesc(Tail(sorted), x)

RECURSIVE SortByCreatedDesc(_)
SortByCreatedDesc(xs) ==
    IF xs = <<>> THEN <<>>
    ELSE InsertByCreatedDesc(SortByCreatedDesc(Tail(xs)), xs[1])

\* cursor.limit(limit) for a positive limit
Limit(xs, limit) == SubSeq(xs, 1, Min(limit, Len(xs)))

\* PredictionRepository.get_user_predictions
get_user_predictions(store, user_id, exam, limit) ==
    Limit(SortByCreatedDesc(SelectSeq(store,
              LAMBDA x : x.user_id = user_id /\ x.target_exam = exam)),
          limit)

DefaultHistoryLimit == 10

\* PredictionService.get_user_prediction_history: the limit is not passed on
get_user_prediction_history(store, user_id, exam) ==
    get_user_predictions(store, user_id, exam, DefaultHistoryLimit)

\* the Python slice xs[:limit]
SliceTo(xs, limit) ==
    IF limit >= 0 THEN SubSeq(xs, 1, Min(limit, Len(xs)))
    ELSE SubSeq(xs, 1, Max(0, Len(xs) + limit))

\* Qualifying without the percentile_confidence >= min_confidence condition
QualifyingAnyConfidence(store, exam, min_confidence) ==
    {i \in 1..Len(store) : store[i].target_exam = exam}

\* the positions of the documents the leaderboard query matches
Qualifying(store, exam, min_confidence) ==
    {i \in 1..Len(store) : store[i].target_exam = exam
                             /\ store[i].percentile_confidence >= min_confidence}

\* the orders in which sort(predicted_rank) can return them: documents of
\* equal rank come in any order
RankOrders(store, matched) ==
    {o \in [1..Cardinality(matched) -> matched] :
        /\ \A i, j \in 1..Cardinality(matched) : o[i] = o[j] => i = j
        /\ \A i, j \in 1..Cardinality(matched) :
               i < j => store[o[i]].predicted_rank <= store[o[j]].predicted_rank}

\* PredictionRepository.get_prediction_leaderboard: every list the query can
\* return
get_prediction_leaderboard(store, exam, limit, min_confidence) ==
    {Limit([i \in 1..Len(o) |-> store[o[i]]], limit) :
        o \in RankOrders(store, Qualifying(store, exam, min_confidence))}

(***************************************************************************)
(* API endpoints: src/src/api/endpoints/predictions.py                     *)
(***************************************************************************)
Reply(request, status) == [kind |-> "reply", request |-> request, status |-> status]

\* ShouldSave that also saves when no quiz_session_id was given
ShouldSaveAlways(request) == TRUE

\* if request.quiz_session_id
ShouldSave(request) == IdTruthy(request.quiz_session_id)

\* what the handler of POST /predictions/generate does with the outcome of
\* generate_prediction: reply, or go on to save_prediction
Computed(slot, request, prediction) ==
    IF prediction.kind = "error"
    THEN /\ http' = Reply(request, 500)
         /\ UNCHANGED inflight
    ELSE IF ShouldSave(request)
    THEN /\ inflight' = [inflight EXCEPT ![slot] =
                            [pc |-> "saving", request |-> request,
                             prediction |-> prediction]]
         /\ UNCHANGED http
    ELSE /\ http' = Reply(request, 200)
         /\ UNCHANGED inflight

\* POST /predictions/generate, up to the reply or to the save: the request
\* is validated, the history is fetched and the prediction is computed
BeginGenerate(slot, request) ==
    /\ inflight[slot] = IdleSlot
    /\ IF ~RequestValid(request)
       THEN /\ http' = Reply(request, 422)
            /\ UNCHANGED inflight
       ELSE LET fetched == get_user_mock_sessions(sessions, request.user_id, now,
                                                  request.target_exam)
            IN  IF fetched.error # "none"
                THEN /\ http' = Reply(request, 500)
                     /\ UNCHANGED inflight
                ELSE \E order \in SubjectOrders(AllSubjects(fetched.list)) :
                         Computed(slot, request,
                                  generate_prediction(fetched.list, now,
                                      request.target_exam, order).response)
    /\ UNCHANGED <<sessions, now, trace, predictions, listing, workflow>>

\* POST /predictions/generate, the rest: save_prediction and the reply
FinishGenerate(slot) ==
    /\ inflight[slot].pc = "saving"
    /\ LET saved == save_prediction(predictions, inflight[slot].request,
                                    inflight[slot].prediction)
       IN  /\ predictions' = saved.store
           /\ http' = Reply(inflight[slot].request,
                            IF saved.error = "none" THEN 200 ELSE 500)
    /\ inflight' = [inflight EXCEPT ![slot] = IdleSlot]
    /\ listing' = NoListing
    /\ UNCHANGED <<sessions, now, trace, workflow>>

\* GET /predictions/user/{user_id}?target_exam=..&limit=..
GetUserPredictions(user_id, exam, limit) ==
    /\ listing = NoListing
    /\ listing' = [kind |-> "history", user_id |-> user_id, target_exam |-> exam,
                   limit |-> limit,
                   items |-> SliceTo(get_user_prediction_history(predictions,
                                         user_id, exam), limit)]
    /\ UNCHANGED <<sessions, now, trace, predictions, inflight, http, workflow>>

\* one call of PredictionRepository.get_prediction_leaderboard
GetPredictionLeaderboard(exam, limit, min_confidence) ==
    /\ listing = NoListing
    /\ \E items \in get_prediction_leaderboard(predictions, exam, limit,
                                                min_confidence) :
           listing' = [kind |-> "leaderboard", target_exam |-> exam,
                       limit |-> limit, min_confidence |-> min_confidence,
                       items |-> items]
    /\ UNCHANGED <<sessions, now, trace, predictions, inflight, http, workflow>>

(***************************************************************************)
(* Quiz-taking workflow: QuestionService.create_question,                  *)
(* AnswerService.submit_answer and QuizSessionService                      *)
(* (src/src/services/quiz_service.py).  The id of a document is its        *)
(* position in its store; a session's overall percentage is in whole       *)
(* percentage points.                                                      *)
(***************************************************************************)
\* session_id = None
NoSession == 0

MinutesPerDay == 1440

Question(quiz_id, points) == [quiz_id |-> quiz_id, points |-> points]

\* answer_data of submit_answer
Answer(question, user_id, question_id, is_correct, session_id) ==
    [user_id |-> user_id,
     quiz_id |-> question.quiz_id,
     question_id |-> question_id,
     is_correct |-> is_correct,
     points_earned |-> IF is_correct THEN question.points ELSE 0,
     session_id |-> session_id]

\* session_data of start_quiz_session, with the defaults of the document
StartedSession(user_id, quiz_id, started_at, limit, max_possible_score, total_questions) ==
    [user_id |-> user_id,
     quiz_id |-> quiz_id,
     status |-> "in_progress",
     started_at |-> started_at,
     percentage_score |-> None,
     subject_scores |-> EmptyDict,
     time_taken_minutes |-> None,
     time_limit_minutes |-> limit,
     total_questions |-> total_questions,
     questions_answered |-> 0,
     correct_answers |-> 0,
     total_score |-> 0,
     max_possible_score |-> max_possible_score]

\* Quiz.time_limit_minutes of every quiz of the catalogue
TimeLimitMinutes == 60

\* a stored session parses when it is loaded: percentage_score has ge=0 and
\* le=100, which are validated on load and not on save
SessionLoads(session) ==
    session.percentage_score = None \/ session.percentage_score \in 0..100

\* (total_score / max_possible_score) * 100
Percentage(total_score, max_possible_score) ==
    (total_score * 100) \div max_possible_score

\* the active questions of a quiz
QuizQuestions(question_store, quiz_id) ==
    SelectSeq(question_store, LAMBDA q : q.quiz_id = quiz_id)

\* sum(q.points for q in questions if q.is_active)
MaxPossibleScore(question_store, quiz_id) ==
    LET qs == QuizQuestions(question_store, quiz_id)
    IN  SumSeq([i \in 1..Len(qs) |-> qs[i].points])

\* the sessions find_one can return for get_active_session(user_id, quiz_id)
get_active_session(store, user_id, quiz_id) ==
    {i \in 1..Len(store) : /\ store[i].user_id = user_id
                            /\ store[i].quiz_id = quiz_id
                            /\ store[i].status = "in_progress"}

\* answer_repository.update of the existing answer of (user, question), a
\* None session_id leaving the stored one, or answer_repository.create
WriteAnswer(answer_store, answer) ==
    IF \E i \in 1..Len(answer_store) :
           /\ answer_store[i].user_id = answer.user_id
           /\ answer_store[i].question_id = answer.question_id
    THEN [i \in 1..Len(answer_store) |->
             IF /\ answer_store[i].user_id = answer.user_id
                /\ answer_store[i].question_id = answer.question_id
             THEN IF answer.session_id = NoSession
                  THEN [answer EXCEPT !.session_id = answer_store[i].session_id]
                  ELSE answer
             ELSE answer_store[i]]
    ELSE Append(answer_store, answer)

\* AnswerService._update_session_progress
update_session_progress(store, answer_store, session_id) ==
    IF session_id \notin 1..Len(store) THEN [error |-> "none", store |-> store]
    ELSE IF ~SessionLoads(store[session_id])
    THEN [error |-> "ValidationError", store |-> store]
    ELSE LET session == store[session_id]
             session_answers ==
                 SelectSeq(answer_store, LAMBDA a : a.session_id = session_id)
             total_score ==
                 SumSeq([i \in 1..Len(session_answers) |->
                            session_answers[i].points_earned])
             correct_count ==
                 Len(SelectSeq(session_answers, LAMBDA a : a.is_correct))
             progressed ==
                 [session EXCEPT !.total_score = total_score,
                                 !.questions_answered = Len(session_answers),
                                 !.correct_answers = correct_count]
         IN  [error |-> "none",
              store |-> [store EXCEPT ![session_id] =
                  IF session.max_possible_score > 0
                  THEN [progressed EXCEPT !.percentage_score =
                           Percentage(total_score, session.max_possible_score)]
                  ELSE progressed]]

\* AnswerService.submit_answer: the exception or "none", and the two stores
submit_answer(question_store, answer_store, store, user_id, question_id, is_correct, session_id) ==
    IF question_id \notin 1..Len(question_store)
    THEN [error |-> "ValueError", answers |-> answer_store, sessions |-> store]
    ELSE LET written ==
                 WriteAnswer(answer_store,
                             Answer(question_store[question_id], user_id,
                                    question_id, is_correct, session_id))
         IN  IF session_id = NoSession
             THEN [error |-> "none", answers |-> written, sessions |-> store]
             ELSE LET updated == update_session_progress(store, written, session_id)
                  IN  [error |-> updated.error, answers |-> written,
                       sessions |-> updated.store]

\* QuizSessionService.complete_quiz_session
complete_quiz_session(store, session_id, clock) ==
    IF session_id \notin 1..Len(store) THEN [error |-> "none", store |-> store]
    ELSE IF ~SessionLoads(store[session_id])
    THEN [error |-> "ValidationError", store |-> store]
    ELSE LET session == store[session_id]
         IN  [error |-> "none",
              store |-> [store EXCEPT ![session_id] =
                  [session EXCEPT
                      !.status = "completed",
                      !.time_taken_minutes = (clock - session.started_at) * MinutesPerDay,
                      !.percentage_score =
                          IF session.max_possible_score > 0
                          THEN Percentage(session.total_score, session.max_possible_score)
                          ELSE 0]]]

\* QuizSessionService.abandon_quiz_session
abandon_quiz_session(store, session_id) ==
    IF session_id \notin 1..Len(store) THEN [error |-> "none", store |-> store]
    ELSE IF ~SessionLoads(store[session_id])
    THEN [error |-> "ValidationError", store |-> store]
    ELSE [error |-> "none",
          store |-> [store EXCEPT ![session_id] = [@ EXCEPT !.status = "abandoned"]]]

\* QuestionService.create_question
CreateQuestion(quiz_id, points) ==
    /\ questions' = Append(questions, Question(quiz_id, points))
    /\ UNCHANGED <<sessions, now, trace, api, answers, starts>>

SubmitAnswer(user_id, question_id, is_correct, session_id) ==
    /\ LET submitted == submit_answer(questions, answers, sessions, user_id,
                                      question_id, is_correct, session_id)
       IN  /\ answers' = submitted.answers
           /\ sessions' = submitted.sessions
    /\ UNCHANGED <<now, trace, api, questions, starts>>

CompleteQuizSession(session_id) ==
    /\ sessions' = complete_quiz_session(sessions, session_id, now).store
    /\ UNCHANGED <<now, trace, api, workflow>>

AbandonQuizSession(session_id) ==
    /\ sessions' = abandon_quiz_session(sessions, session_id).store
    /\ UNCHANGED <<now, trace, api, workflow>>

\* start_quiz_session up to its insert: when an active session is found it
\* is returned (or fails to load) and the call is over, and so it is when
\* the quiz cannot be resolved; else the call goes on to create a session
BeginStartQuizSession(caller, user_id, quiz_id) ==
    /\ starts[caller] = IdleCall
    /\ starts' = [starts EXCEPT ![caller] =
           IF get_active_session(sessions, user_id, quiz_id) # {}
              \/ quiz_id \notin QuizIds
           THEN IdleCall
           ELSE [pc |-> "creating", user_id |-> user_id, quiz_id |-> quiz_id]]
    /\ UNCHANGED <<sessions, now, trace, api, questions, answers>>

\* start_quiz_session, the rest: the questions are read and the session is
\* inserted
FinishStartQuizSession(caller) ==
    /\ starts[caller].pc = "creating"
    /\ LET user_id == starts[caller].user_id
           quiz_id == starts[caller].quiz_id
       IN  /\ sessions' = Append(sessions,
                  StartedSession(user_id, quiz_id, now, TimeLimitMinutes,
                                 MaxPossibleScore(questions, quiz_id),
                                 Len(QuizQuestions(questions, quiz_id))))
           /\ starts' = [starts EXCEPT ![caller] = IdleCall]
    /\ UNCHANGED <<now, trace, api, questions, answers>>

(***************************************************************************)
(* Spec: short histories over every combination of overall percentage    *)
(* and subject breakdown                                                   *)
(***************************************************************************)
PercentageValues == {None, 0, 50, 100}

SubjectScoreValues ==
    {EmptyDict,
     (SubjDI :> ScoreData(2, 2, 100)),
     (SubjVA :> ScoreData(0, 2, 0)) @@ (SubjQuant :> ScoreData(1, 2, 50))}

RecordStep ==
    /\ Len(sessions) < MaxSessions
    /\ \E percentage_score \in PercentageValues, subject_scores \in SubjectScoreValues :
           RecordAttempt("q_all", percentage_score, subject_scores, 54, 60)

GenerateStep == \E exam \in {ExamCAT, ExamXAT} : GeneratePrediction(exam)

Next == RecordStep \/ GenerateStep

Spec == Init /\ [][Next]_vars

(***************************************************************************)
(* SpecLong: long histories of complete attempts, every exam family        *)
(***************************************************************************)
LongPercentageValues == {40, 80}

RecordLongStep ==
    /\ Len(sessions) < MaxLongSessions
    /\ \E percentage_score \in LongPercentageValues :
           RecordAttempt("q_all", percentage_score,
                         (SubjQuant :> ScoreData(percentage_score \div 10, 10,
                                                 percentage_score)),
                         30, 60)

GenerateLongStep == \E exam \in TargetExams : GeneratePrediction(exam)

NextLong == RecordLongStep \/ GenerateLongStep

SpecLong == Init /\ [][NextLong]_vars

(***************************************************************************)
(* SpecClock: the clock advances, attempts leave the 180-day window        *)
(***************************************************************************)
TickDays == {90}

RecordClockStep ==
    /\ Len(sessions) < MaxClockSessions
    /\ \E percentage_score \in {None, 60} :
           RecordAttempt("q_all", percentage_score,
                         (SubjLR :> ScoreData(3, 5, 60)), None, None)

GenerateClockStep == GeneratePrediction(ExamCAT)

TickStep == \E days \in TickDays : Tick(days)

NextClock == RecordClockStep \/ GenerateClockStep \/ TickStep

SpecClock == Init /\ [][NextClock]_vars

(***************************************************************************)
(* SpecApi: concurrent calls of POST /predictions/generate                 *)
(***************************************************************************)
MaxApiSessions == 3
MaxStored == 3

ExamBlank == <<" ", " ">>

Saving == {slot \in Slots : inflight[slot].pc = "saving"}

RecordApiStep ==
    /\ Len(sessions) < MaxApiSessions
    /\ RecordAttempt("q_all", 100, EmptyDict, 54, 60)

BeginStep ==
    /\ Len(predictions) + Cardinality(Saving) < MaxStored
    /\ \E slot \in Slots, exam \in {ExamCAT, NoTarget, ExamBlank, NoneText},
          quiz_session_id \in {NoneId, "s1"} :
           BeginGenerate(slot, PredictionRequest("u1", exam, quiz_session_id))

FinishStep == \E slot \in Slots : FinishGenerate(slot)

\* a direct call of the service, as the analysis endpoints make it
GenerateApiStep == GeneratePrediction(ExamCAT)

NextApi == RecordApiStep \/ BeginStep \/ FinishStep \/ GenerateApiStep

SpecApi == Init /\ [][NextApi]_vars

(***************************************************************************)
(* SpecCatalog: attempts of two users on every kind of quiz, open and      *)
(* completed, while the clock advances                                     *)
(***************************************************************************)
MaxCatalogSessions == 4

\* user, quiz and status of the session documents that get written
CatalogSessions ==
    {<<"u1", "q_cat", "completed">>,
     <<"u1", "q_tagged", "completed">>,
     <<"u1", "q_gone", "completed">>,
     <<"u1", "q_quiz", "completed">>,
     <<"u1", "q_tagged", "abandoned">>,
     <<"u2", "q_tagged", "completed">>}

RecordCatalogStep ==
    /\ Len(sessions) < MaxCatalogSessions
    /\ \E doc \in CatalogSessions :
           RecordSession(doc[1], doc[2], doc[3], 60,
                         (SubjLR :> ScoreData(3, 5, 60)), 54, 60)

GenerateCatalogStep == \E exam \in {ExamCAT, ExamXAT} : GeneratePrediction(exam)

\* one long pause, after which the earlier attempts are older than the window
CatalogTickDays == {200}

CatalogTickStep == \E days \in CatalogTickDays : Tick(days)

NextCatalog == RecordCatalogStep \/ GenerateCatalogStep \/ CatalogTickStep

SpecCatalog == Init /\ [][NextCatalog]_vars

(***************************************************************************)
(* SpecHistory: two users persist predictions one request at a time and    *)
(* read their prediction history                                           *)
(***************************************************************************)
MaxHistoryStored == 11

HistoryLimits == {1, 11}

PersistHistoryStep ==
    /\ Len(predictions) < MaxHistoryStored
    /\ \E user_id \in Users :
           BeginGenerate(1, PredictionRequest(user_id, ExamCAT, "s1"))

FinishHistoryStep == FinishGenerate(1)

HistoryStep ==
    \E user_id \in Users, limit \in HistoryLimits :
        GetUserPredictions(user_id, ExamCAT, limit)

NextHistory == PersistHistoryStep \/ FinishHistoryStep \/ HistoryStep

SpecHistory == Init /\ [][NextHistory]_vars

(***************************************************************************)
(* SpecBoard: one user's predictions are persisted as the history grows    *)
(* and the leaderboard of an exam is read                                  *)
(***************************************************************************)
MaxBoardSessions == 4
MaxBoardStored == 3

BoardLimits == {1, 2}
\* the repository default 0.5, and 0.7
BoardConfidences == {5000, 7000}

\* attempts are recorded and predictions persisted until the leaderboard is
\* read
RecordBoardStep ==
    /\ Len(sessions) < MaxBoardSessions
    /\ listing = NoListing
    /\ \E percentage_score \in LongPercentageValues :
           RecordAttempt("q_all", percentage_score,
                         (SubjQuant :> ScoreData(percentage_score \div 10, 10,
                                                 percentage_score)),
                         54, 60)

PersistBoardStep ==
    /\ Len(predictions) < MaxBoardStored
    /\ listing = NoListing
    /\ \E exam \in {ExamCAT, ExamXAT} :
           BeginGenerate(1, PredictionRequest("u1", exam, "s1"))

BoardStep ==
    \E limit \in BoardLimits, min_confidence \in BoardConfidences :
        GetPredictionLeaderboard(ExamCAT, limit, min_confidence)

NextBoard == RecordBoardStep \/ PersistBoardStep \/ FinishStep \/ BoardStep

SpecBoard == Init /\ [][NextBoard]_vars

(***************************************************************************)
(* SpecSuggest: slow attempts with a four-subject breakdown, so that more  *)
(* suggestions are triggered than are kept                                 *)
(***************************************************************************)
MaxSuggestSessions == 3

\* the same percentage in each of the four subjects
FourSubjects(percentage) ==
    [subject \in {SubjQuant, SubjDI, SubjVA, SubjLR} |->
        ScoreData(percentage \div 10, 10, percentage)]

RecordSuggestStep ==
    /\ Len(sessions) < MaxSuggestSessions
    /\ \E percentage_score \in {20, 90}, subject_percentage \in {30, 90} :
           RecordAttempt("q_all", percentage_score,
                         FourSubjects(subject_percentage), 30, 60)

GenerateSuggestStep == GeneratePrediction(ExamCAT)

NextSuggest == RecordSuggestStep \/ GenerateSuggestStep

SpecSuggest == Init /\ [][NextSuggest]_vars

(***************************************************************************)
(* SpecQuiz: questions are created, sessions are started by concurrent     *)
(* calls, answered, completed and abandoned                                *)
(***************************************************************************)
MaxQuestions == 2
MaxQuizSessions == 2

Creating == {caller \in Starters : starts[caller].pc = "creating"}

CreateQuestionStep ==
    /\ Len(questions) < MaxQuestions
    /\ \E quiz_id \in {"q_cat", "q_tagged"} : CreateQuestion(quiz_id, 1)

BeginStartStep ==
    /\ Len(sessions) + Cardinality(Creating) < MaxQuizSessions
    /\ \E caller \in Starters, quiz_id \in {"q_cat", "q_gone"} :
           BeginStartQuizSession(caller, "u1", quiz_id)

FinishStartStep == \E caller \in Starters : FinishStartQuizSession(caller)

SubmitStep ==
    \E question_id \in 1..Len(questions), is_correct \in BOOLEAN,
       session_id \in {NoSession} \cup (1..Len(sessions)) :
        SubmitAnswer("u1", question_id, is_correct, session_id)

CompleteStep == \E session_id \in 1..Len(sessions) : CompleteQuizSession(session_id)

AbandonStep == \E session_id \in 1..Len(sessions) : AbandonQuizSession(session_id)

NextQuiz ==
    \/ CreateQuestionStep
    \/ BeginStartStep
    \/ FinishStartStep
    \/ SubmitStep
    \/ CompleteStep
    \/ AbandonStep

SpecQuiz == Init /\ [][NextQuiz]_vars

(***************************************************************************)
(* SpecTrend: histories long enough to have attempts before the last-5     *)
(* window, with absent and zero overall percentages                        *)
(***************************************************************************)
MaxTrendSessions == 6

TrendPercentageValues == {None, 0, 40, 50}

RecordTrendStep ==
    /\ Len(sessions) < MaxTrendSessions
    /\ \E percentage_score \in TrendPercentageValues :
           RecordAttempt("q_all", percentage_score,
                         (SubjQuant :> ScoreData(1, 2, 50)), 54, 60)

GenerateTrendStep == GeneratePrediction(ExamCAT)

NextTrend == RecordTrendStep \/ GenerateTrendStep

SpecTrend == Init /\ [][NextTrend]_vars

(***************************************************************************)
(* SpecSubject: attempts whose subject breakdowns differ from one attempt  *)
(* to the next, with subjects at 0% and at 100%                            *)
(***************************************************************************)
MaxSubjectSessions == 4

SubjectBreakdowns ==
    {EmptyDict,
     (SubjLR :> ScoreData(0, 10, 0)),
     (SubjVA :> ScoreData(0, 10, 0)) @@ (SubjDI :> ScoreData(10, 10, 100)),
     (SubjVA :> ScoreData(1, 10, 10)) @@ (SubjDI :> ScoreData(9, 10, 90))}

RecordSubjectStep ==
    /\ Len(sessions) < MaxSubjectSessions
    /\ \E subject_scores \in SubjectBreakdowns :
           RecordAttempt("q_all", 60, subject_scores, 54, 60)

GenerateSubjectStep == GeneratePrediction(ExamCAT)

NextSubject == RecordSubjectStep \/ GenerateSubjectStep

SpecSubject == Init /\ [][NextSubject]_vars

(***************************************************************************)
(* Properties                                                              *)
(***************************************************************************)
Served == path \in {"preliminary", "full"}
Returned == Served /\ response.kind = "result"

\* C1: whenever the history fetch succeeds and target_exam is non-empty,
\* generate_prediction returns a PredictionResult and never raises, whatever
\* the history, also with 3 or more attempts whose percentages are all
\* absent or zero.
C1_NeverRaises == Served => response.kind = "result"

\* C2: the preliminary path is taken if and only if the fetched history has
\* fewer than 3 attempts; with 3 or more the full pipeline runs and the trend
\* it reports is improving, declining, stable or insufficient_data, never
\* preliminary.
C2_PathByHistoryLength ==
    Served =>
        /\ (path = "preliminary") <=> (Len(mock_sessions) < 3)
        /\ (Len(mock_sessions) >= 3 /\ response.kind = "result") =>
               response.performance_trend
                   \in {"improving", "declining", "stable", "insufficient_data"}

\* C2 witness: the full pipeline returned for a history of exactly 3 attempts
\* that is shorter than the store, an older attempt having left the window.
C2_Witness ==
    /\ path = "full"
    /\ response.kind = "result"
    /\ Len(mock_sessions) = 3
    /\ Len(sessions) = 4

\* C3: on either path predicted_percentile lies in [0, 100] and every value
\* of subject_percentiles is a number in [0, 100].
C3_PercentilesInRange ==
    Returned =>
        /\ RatLe(Rat(0, 1), response.predicted_percentile)
        /\ RatLe(response.predicted_percentile, Rat(100, 1))
        /\ \A subject \in DOMAIN response.subject_percentiles :
               /\ response.subject_percentiles[subject].type = "float"
               /\ response.subject_percentiles[subject].value \in 0..100000

\* C4: on either path predicted_rank is a positive integer.
C4_RankPositive == Returned => response.predicted_rank >= 1

\* C5: confidence_score lies in [0.1, 0.95] on either path, and is 0.1 or 0.3
\* on the preliminary path.
C5_ConfidenceInRange ==
    Returned =>
        /\ response.confidence_score >= 1000
        /\ response.confidence_score <= 9500
        /\ path = "preliminary" => response.confidence_score \in {1000, 3000}

\* C5 witness: the full pipeline returned for 9 or more attempts, where the
\* weighted sum exceeds 0.95 and the clamp decides the value.
C5_Witness ==
    /\ path = "full"
    /\ response.kind = "result"
    /\ Len(mock_sessions) >= 9
    /\ response.confidence_score = 9500

\* C6: expected_score_range carries min, max and expected, all in [0, 100],
\* with min <= expected <= max.
C6_ScoreRangeOrdered ==
    Returned =>
        /\ {"min", "max", "expected"} \subseteq DOMAIN response.expected_score_range
        /\ 0 <= response.expected_score_range.min
        /\ response.expected_score_range.min <= response.expected_score_range.expected
        /\ response.expected_score_range.expected <= response.expected_score_range.max
        /\ response.expected_score_range.max <= 10000

\* C6 witness: a full-pipeline range whose upper end is cut at 100 while the
\* lower end lies strictly inside.
C6_Witness ==
    /\ path = "full"
    /\ response.kind = "result"
    /\ 0 < response.expected_score_range.min
    /\ response.expected_score_range.min < response.expected_score_range.expected
    /\ response.expected_score_range.expected < response.expected_score_range.max
    /\ response.expected_score_range.max = 10000

\* C7: with 0 eligible attempts the result is the fixed neutral one for every
\* target exam: rank 50000, percentile 50.0, no subject percentiles,
\* confidence 0.1, trend insufficient_data, two suggestions, range 0 to 100.
C7_ZeroAttemptsNeutral ==
    (Served /\ mock_sessions = <<>>) =>
        /\ response.kind = "result"
        /\ response.predicted_rank = 50000
        /\ response.predicted_percentile = [num |-> 50, den |-> 1]
        /\ DOMAIN response.subject_percentiles = {}
        /\ response.confidence_score = 1000
        /\ response.performance_trend = "insufficient_data"
        /\ Len(response.improvement_suggestions) = 2
        /\ response.expected_score_range.min = 0
        /\ response.expected_score_range.max = 10000

\* C7 witness: a request for an exam with a 200000-candidate pool served
\* from an empty history.
C7_Witness ==
    /\ path = "preliminary"
    /\ mock_sessions = <<>>
    /\ target_exam = ExamCAT
    /\ response.kind = "result"

\* C8: with 1 or 2 attempts predicted_percentile is the latest attempt's
\* overall percentage whenever it has one (any value in [0, 100]) and 50 only
\* when it is absent; confidence is 0.3, the trend is preliminary and the
\* range is [max(0, p - 20), min(100, p + 20)].
C8_PreliminaryUsesLatest ==
    (Returned /\ Len(mock_sessions) \in {1, 2}) =>
        LET latest == mock_sessions[Len(mock_sessions)].percentage_score
            p == IF latest = None THEN 50 ELSE latest
        IN  /\ response.predicted_percentile = [num |-> p, den |-> 1]
            /\ response.confidence_score = 3000
            /\ response.performance_trend = "preliminary"
            /\ response.expected_score_range.min = Max(0, (p - 20) * 100)
            /\ response.expected_score_range.max = Min(10000, (p + 20) * 100)

\* the candidate pool the claims state for each exam of the model
ClaimedPool(exam) ==
    IF exam \in {ExamCAT, ExamCatLower} THEN 200000
    ELSE IF exam = ExamJEE THEN 1000000
    ELSE IF exam = ExamNEET THEN 1500000
    ELSE IF exam = ExamGATE THEN 800000
    ELSE 100000

\* round(n / d), ties to even, for n >= 0 and d > 0
RoundHalfEven(n, d) ==
    LET q == n \div d
        r == n % d
    IN  IF 2 * r < d THEN q
        ELSE IF 2 * r > d THEN q + 1
        ELSE IF q % 2 = 0 THEN q ELSE q + 1

\* pool_size * (100 - predicted_percentile) / 100 as numerator over
\* response.predicted_percentile.den
RankProduct ==
    (ClaimedPool(target_exam) \div 100)
        * (100 * response.predicted_percentile.den - response.predicted_percentile.num)

\* C9 as stated: in the full pipeline predicted_rank =
\* max(1, round(pool_size * (100 - predicted_percentile) / 100)) with the
\* pool of the exam family, also when the product is not an integer.
C9_RankIsRounded ==
    (path = "full" /\ response.kind = "result") =>
        response.predicted_rank
            = Max(1, RoundHalfEven(RankProduct, response.predicted_percentile.den))

\* C9 as amended: in the full pipeline predicted_rank =
\* max(1, int(pool_size * (100 - predicted_percentile) / 100)): the product
\* is truncated, not rounded, with the pool of the exam family.
C9_RankIsTruncated ==
    (path = "full" /\ response.kind = "result") =>
        response.predicted_rank
            = Max(1, RankProduct \div response.predicted_percentile.den)

\* C9 witness: a full-pipeline result for a lower-case exam label whose
\* product has a fractional part above one half.
C9_Witness ==
    /\ path = "full"
    /\ response.kind = "result"
    /\ target_exam = ExamCatLower
    /\ 2 * (RankProduct % response.predicted_percentile.den)
           > response.predicted_percentile.den

RecentWindow == 3
RaiseDeltas == {1, 50}

\* the attempts of the recent window that have an overall percentage
WindowIndices(h) ==
    {i \in 1..Len(h) : i > Len(h) - RecentWindow /\ h[i].percentage_score # None}

\* h with the percentage of every attempt i of the window raised by by[i]
RaiseWindow(h, by) ==
    [i \in 1..Len(h) |->
        IF i \in DOMAIN by
        THEN [h[i] EXCEPT !.percentage_score = @ + by[i]]
        ELSE h[i]]

\* C10: for two histories of the same length (3 or more) that differ only in
\* that every overall percentage of the recent window is strictly higher in
\* the second, the second predicted_percentile is strictly greater, or both
\* are 100.
C10_RecentWindowMonotone ==
    (path = "full" /\ response.kind = "result") =>
        \A by \in [WindowIndices(mock_sessions) -> RaiseDeltas] :
            (/\ WindowIndices(mock_sessions) # {}
             /\ \A i \in DOMAIN by : mock_sessions[i].percentage_score + by[i] <= 100)
            => LET first == response.predicted_percentile
                   second == PredictedPercentile(RaiseWindow(mock_sessions, by))
               IN  \/ RatLt(first, second)
                   \/ (first = Rat(100, 1) /\ second = Rat(100, 1))

\* every result or exception one call of generate_prediction(user_id, exam)
\* can produce from `store` when the clock reads `clock`
PredictionsAt(store, user_id, clock, exam) ==
    LET fetched == get_user_mock_sessions(store, user_id, clock, exam)
    IN  IF fetched.error # "none" THEN {Raised(fetched.error)}
        ELSE {generate_prediction(fetched.list, clock, exam, order).response :
                  order \in SubjectOrders(AllSubjects(fetched.list))}

Elapsed == {1, 90}

\* C11: a second call of generate_prediction for the same user and target
\* exam over the unchanged session store returns the result of the first
\* call in every field, whatever time elapses between the two calls.
C11_IdempotentOverTime ==
    Served =>
        \A days \in Elapsed :
            PredictionsAt(sessions, "u1", now + days, target_exam) = {response}

\* the subjects that appear in the breakdown of at least one attempt of h
ObservedSubjects(h) ==
    {subject \in UNION {DOMAIN h[i].subject_scores : i \in 1..Len(h)} :
        \E i \in 1..Len(h) : subject \in DOMAIN h[i].subject_scores}

\* C12: on the preliminary path and in the full pipeline the keys of
\* subject_percentiles are exactly the subjects that appear in the subject
\* breakdown of at least one attempt of the fetched history, not only of
\* the latest attempt.
C12_SubjectKeysObserved ==
    Returned =>
        DOMAIN response.subject_percentiles = ObservedSubjects(mock_sessions)

\* a target_exam that is present but holds no token: empty or whitespace
BlankExam(exam) == exam # NoneText /\ split(exam) = <<>>

\* C13: a /generate request whose target_exam is empty or whitespace-only is
\* answered with a validation failure (422): it never returns a
\* PredictionResult and nothing is persisted for it, whatever attempts the
\* user has.
C13_BlankExamRejected ==
    /\ (http.kind = "reply" /\ BlankExam(http.request.target_exam))
           => http.status = 422
    /\ \A slot \in Slots :
           inflight[slot].pc = "saving"
               => ~BlankExam(inflight[slot].request.target_exam)
    /\ \A i \in 1..Len(predictions) : ~BlankExam(predictions[i].target_exam)

\* the store without the attempts whose quiz cannot be resolved
Resolvable(store) == SelectSeq(store, LAMBDA x : x.quiz_id \in QuizIds)

\* C14: an attempt whose quiz cannot be resolved is left out of the history:
\* the call returns (or raises) what it would for the store without that
\* attempt, and the fetched history holds no such attempt.
C14_UnresolvedQuizExcluded ==
    path # "idle" =>
        /\ response \in PredictionsAt(Resolvable(sessions), "u1", now, target_exam)
        /\ \A i \in 1..Len(mock_sessions) : mock_sessions[i].quiz_id \in QuizIds

\* C14 witness: the full pipeline returned for a user who also has a
\* completed attempt inside the window whose quiz cannot be resolved.
C14_Witness ==
    /\ path = "full"
    /\ response.kind = "result"
    /\ \E i \in 1..Len(sessions) :
           /\ sessions[i].user_id = "u1"
           /\ sessions[i].status = "completed"
           /\ sessions[i].started_at >= now - CutoffDays
           /\ sessions[i].quiz_id \notin QuizIds

\* the relevance test as the claim states it: a mock-test quiz whose title or
\* category contains the token, a missing category matching nothing
ClaimedRelevant(quiz_id, token) ==
    /\ quiz_id \in QuizIds
    /\ Quizzes[quiz_id].quiz_type = "mock_test"
    /\ \/ contains(lower(Quizzes[quiz_id].title), lower(token))
       \/ /\ Quizzes[quiz_id].category # NoneText
          /\ contains(lower(Quizzes[quiz_id].category), lower(token))

\* C15: the history provider returns exactly the attempts of the user that
\* are completed, started within the last 180 days and taken on a mock-test
\* quiz whose title or category contains the exam-family token, ordered
\* ascending by started_at; a mock-test quiz with no category whose title
\* lacks the token is not matched and raises nothing.
C15_ProviderFilter ==
    (path # "idle" /\ split(target_exam) # <<>>) =>
        /\ path # "fetch_failed"
        /\ mock_sessions =
               SelectSeq(sessions,
                   LAMBDA x : /\ x.user_id = "u1"
                              /\ x.status = "completed"
                              /\ x.started_at >= now - CutoffDays
                              /\ ClaimedRelevant(x.quiz_id, split(target_exam)[1]))
        /\ \A i, j \in 1..Len(mock_sessions) :
               i < j => mock_sessions[i].started_at <= mock_sessions[j].started_at

\* a step in which the save_prediction call of some slot returns normally
SaveSucceeds ==
    \E slot \in Slots :
        /\ inflight[slot].pc = "saving"
        /\ inflight'[slot] = IdleSlot
        /\ http' = Reply(inflight[slot].request, 200)

\* C16: persistence is append-only under any interleaving of requests: every
\* step keeps each stored prediction unmodified and in place, and every
\* save_prediction call that succeeds, also one of several concurrent calls
\* for the same user and exam, adds exactly one new stored prediction.
C16_AppendOnly ==
    [][/\ Len(predictions') >= Len(predictions)
       /\ SubSeq(predictions', 1, Len(predictions)) = predictions
       /\ SaveSucceeds => Len(predictions') = Len(predictions) + 1]_vars

\* C16 witness: a prediction is stored for a user and exam while two more
\* requests for the same user and exam are both waiting to be saved.
C16_Witness ==
    /\ Len(predictions) >= 1
    /\ \E s1, s2 \in Slots :
           /\ s1 # s2
           /\ \A slot \in {s1, s2} :
                  /\ inflight[slot].pc = "saving"
                  /\ inflight[slot].request.user_id = predictions[1].user_id
                  /\ inflight[slot].request.target_exam = predictions[1].target_exam

\* a step in which generate_prediction runs: a direct call of the service,
\* or the first part of a /generate request
Computes ==
    \/ path = "idle" /\ path' # "idle"
    \/ \E slot \in Slots : inflight[slot] = IdleSlot /\ inflight'[slot] # IdleSlot
    \/ http' # http /\ inflight' = inflight

\* C17: generate_prediction is read-only: a step in which it runs leaves the
\* session store and the prediction store unchanged, and the prediction
\* store changes only in the save of a /generate request that carried a
\* quiz_session_id.
C17_GenerateReadOnly ==
    [][/\ Computes => (sessions' = sessions /\ predictions' = predictions)
       /\ predictions' # predictions =>
              \E slot \in Slots :
                  /\ inflight[slot].pc = "saving"
                  /\ inflight'[slot] = IdleSlot
                  /\ IdTruthy(inflight[slot].request.quiz_session_id)
                  /\ predictions' = Append(predictions, predictions'[Len(predictions')])]_vars

\* C17 witness: a request without quiz_session_id has just been answered
\* with a result while the store holds exactly the one prediction an
\* earlier request with a quiz_session_id asked to persist.
C17_Witness ==
    /\ http.kind = "reply"
    /\ http.status = 200
    /\ ~IdTruthy(http.request.quiz_session_id)
    /\ Len(predictions) = 1
    /\ predictions[1].quiz_session_id = "s1"

\* the stored predictions of the pair the last history query asked for
HistoryMatches ==
    {i \in 1..Len(predictions) :
        /\ predictions[i].user_id = listing.user_id
        /\ predictions[i].target_exam = listing.target_exam}

\* C18: the prediction history of (user, exam) for a positive limit, also a
\* limit above 10, holds min(limit, number stored for the pair) documents,
\* all of that pair, ordered by created_at descending, and none of the
\* pair's documents left out is more recent than a returned one.
C18_HistoryHonoursLimit ==
    listing.kind = "history" =>
        LET items == listing.items
        IN  /\ Len(items) = Min(listing.limit, Cardinality(HistoryMatches))
            /\ \A k \in 1..Len(items) :
                   \E i \in HistoryMatches : predictions[i] = items[k]
            /\ \A k, l \in 1..Len(items) :
                   k < l => items[k].created_at > items[l].created_at
            /\ \A i \in HistoryMatches :
                   \/ \E k \in 1..Len(items) : items[k] = predictions[i]
                   \/ \A k \in 1..Len(items) :
                          items[k].created_at > predictions[i].created_at

\* the stored predictions that qualify for the last leaderboard query
BoardMatches ==
    {i \in 1..Len(predictions) :
        /\ predictions[i].target_exam = listing.target_exam
        /\ predictions[i].percentile_confidence >= listing.min_confidence}

CheckOrder(suggestion) ==
    IF suggestion.kind = "time_management" THEN 1
    ELSE IF suggestion.kind \in {"priority", "advanced"} THEN 2
    ELSE IF suggestion.kind = "consistency" THEN 3
    ELSE 4

\* the untruncated lists of the fetched history, one per iteration order of
\* the subjects
TriggeredLists ==
    {TriggeredSuggestions(mock_sessions,
                          calculate_subject_predictions(mock_sessions), order) :
        order \in SubjectOrders(AllSubjects(mock_sessions))}

\* C20: the suggestion list of the full pipeline has at most 5 entries, in
\* the order of the checks (time management, weak subjects, consistency,
\* trend), and is a prefix of the list of all triggered suggestions: when 6
\* or more are triggered the 5 earliest are returned in their order.
C20_SuggestionsCappedPrefix ==
    (path = "full" /\ response.kind = "result") =>
        LET suggestions == response.improvement_suggestions
        IN  /\ Len(suggestions) <= 5
            /\ \A k, l \in 1..Len(suggestions) :
                   k < l => CheckOrder(suggestions[k]) <= CheckOrder(suggestions[l])
            /\ \E triggered \in TriggeredLists :
                   /\ Len(suggestions) = Min(5, Len(triggered))
                   /\ \A k \in 1..Len(suggestions) : suggestions[k] = triggered[k]

\* C20 witness: 6 suggestions are triggered (time management, four weak
\* subjects, consistency) and the 5 returned start with time management.
C20_Witness ==
    /\ path = "full"
    /\ response.kind = "result"
    /\ \A triggered \in TriggeredLists : Len(triggered) >= 6
    /\ Len(response.improvement_suggestions) = 5
    /\ response.improvement_suggestions[1].kind = "time_management"

\* predicted_rank as each path computes it from a percentile and the pool:
\* the full pipeline floors the rank at 1, the 1-2 attempt path does not
RankOnPath(branch, total_candidates, percentile) ==
    IF branch = "full" THEN Max(1, RankOf(total_candidates, percentile))
    ELSE RankOf(total_candidates, percentile)

\* the percentiles 0, 1/3, 2/3, .. 100
ProbePercentiles == {Rat(k, 3) : k \in 0..300}

\* C21: for a fixed candidate pool predicted_rank is non-increasing in
\* predicted_percentile: on the path that served the request, every
\* percentile at or above the returned one maps to a rank no larger than the
\* returned rank, and every percentile at or below it to one no smaller.
C21_RankMonotone ==
    (Returned /\ mock_sessions # <<>>) =>
        LET total_candidates == get_estimated_candidates(target_exam)
        IN  \A q \in ProbePercentiles :
                LET rank == RankOnPath(path, total_candidates, q)
                IN  /\ RatLe(response.predicted_percentile, q)
                           => rank <= response.predicted_rank
                    /\ RatLe(q, response.predicted_percentile)
                           => rank >= response.predicted_rank

\* C21 witness: a full-pipeline result for the 1500000-candidate pool whose
\* percentile is not an integer, with a higher percentile that maps to a
\* strictly smaller rank.
C21_Witness ==
    /\ path = "full"
    /\ response.kind = "result"
    /\ target_exam = ExamNEET
    /\ response.predicted_percentile.den > 1
    /\ \E q \in ProbePercentiles :
           /\ RatLt(response.predicted_percentile, q)
           /\ RankOnPath(path, 1500000, q) < response.predicted_rank

\* C22: an attempt record is immutable once completed: no call of
\* submit_answer, complete_quiz_session, abandon_quiz_session or
\* start_quiz_session changes the status, overall percentage, score totals or
\* time taken of a session whose status is completed.
C22_CompletedImmutable ==
    [][\A i \in 1..Len(sessions) :
           sessions[i].status = "completed" =>
               /\ i \in 1..Len(sessions')
               /\ sessions'[i].status = "completed"
               /\ sessions'[i].percentage_score = sessions[i].percentage_score
               /\ sessions'[i].total_score = sessions[i].total_score
               /\ sessions'[i].max_possible_score = sessions[i].max_possible_score
               /\ sessions'[i].time_taken_minutes = sessions[i].time_taken_minutes]_vars

\* C23: after any sequence of question creations and of start_quiz_session,
\* submit_answer and complete_quiz_session calls the overall percentage of
\* every session lies in [0, 100]: its total_score never exceeds its
\* max_possible_score.
C23_PercentageInRange ==
    \A i \in 1..Len(sessions) :
        /\ sessions[i].percentage_score # None
               => sessions[i].percentage_score \in 0..100
        /\ sessions[i].total_score <= sessions[i].max_possible_score

\* C30: under any interleaving of start_quiz_session calls there is at most
\* one in_progress session per (user, quiz) pair.
C30_OneActiveSession ==
    \A user_id \in Users, quiz_id \in QuizIds :
        Cardinality(get_active_session(sessions, user_id, quiz_id)) <= 1

\* the overall percentages that are present in a list of attempts
PresentScores(h) == SelectSeq(PercentageScores(h), LAMBDA x : x # None)

\* the trend as the claim states it, for the attempts h
ClaimedTrend(h) ==
    LET recent == PresentScores(LastK(h, 5))
        older == PresentScores(AllButLastK(h, 5))
        \* (mean(recent) - mean(older)) * Len(recent) * Len(older)
        scaled == SumSeq(recent) * Len(older) - SumSeq(older) * Len(recent)
    IN  IF Len(PresentScores(h)) < 3 \/ recent = <<>> \/ older = <<>>
        THEN "insufficient_data"
        ELSE IF scaled > 5 * Len(recent) * Len(older) THEN "improving"
        ELSE IF scaled < -5 * Len(recent) * Len(older) THEN "declining"
        ELSE "stable"

\* C24: the trend is insufficient_data when fewer than 3 attempts have an
\* overall percentage or when the last-5 window or the older remainder has no
\* score; otherwise it is improving when mean(recent) - mean(older) > 5,
\* declining when it is < -5 and stable otherwise; every history of at most
\* 5 attempts yields insufficient_data.
C24_TrendAsStated ==
    (path = "full" /\ response.kind = "result") =>
        /\ response.performance_trend = ClaimedTrend(mock_sessions)
        /\ Len(mock_sessions) <= 5 => response.performance_trend = "insufficient_data"

\* the mean of the present overall percentages of h (h has one)
PresentMean(h) == Mean(PresentScores(h))

\* 0.7 * mean(last 3) + 0.3 * mean(all) + adjustment, clamped to [0, 100],
\* over the overall percentages that are present
ClaimedPercentile(h, trend) ==
    LET recent_avg == PresentMean(LastK(h, 3))
        avg == PresentMean(h)
    IN  ClampPercentile(
            RatAdd(Rat(7 * recent_avg.num * avg.den + 3 * avg.num * recent_avg.den,
                       10 * recent_avg.den * avg.den),
                   Rat(TrendAdjustment(trend), 1)))

\* C25: in the full pipeline predicted_percentile is
\* clamp(0.7 * mean(overall percentages of the last 3 attempts)
\* + 0.3 * mean(all overall percentages) + adjustment, 0, 100) with adjustment
\* +3 for an improving trend, -2 for a declining one and 0 otherwise, the
\* trend being the one reported as performance_trend (stated for histories
\* whose last 3 attempts hold an overall percentage).
C25_WeightedPercentile ==
    (/\ path = "full"
     /\ response.kind = "result"
     /\ PresentScores(LastK(mock_sessions, 3)) # <<>>) =>
        response.predicted_percentile
            = ClaimedPercentile(mock_sessions, response.performance_trend)

\* the bias the claim gives for each subject name of the model, in
\* thousandths: "Quant" is not a key of the table
ClaimedBias(subject) ==
    IF subject = SubjVA THEN -1000
    ELSE IF subject = SubjDI THEN 1000
    ELSE IF subject = SubjLR THEN -500
    ELSE 0

\* the observed percentages of a subject in the fetched history
Observed(subject) ==
    LET having == SelectSeq(mock_sessions,
                            LAMBDA x : subject \in DOMAIN x.subject_scores)
    IN  [i \in 1..Len(having) |-> having[i].subject_scores[subject].percentage]

\* base in thousandths: 0.7 * mean(last 3) + 0.3 * mean(all) with 3 or more
\* samples, mean(all) otherwise
ClaimedBase(scores) ==
    IF Len(scores) >= 3
    THEN FixDiv(7 * SumSeq(LastK(scores, 3)) * Len(scores) + 9 * SumSeq(scores),
                30 * Len(scores), 3)
    ELSE FixDiv(SumSeq(scores), Len(scores), 3)

\* the factors the claim allows, in ten-thousandths
ClaimedFactors(scores) == IF Len(scores) = 1 THEN {9500} ELSE 9000..10000

\* the subject prediction is clamp(base * factor + bias, 0, 100) for an
\* allowed factor, for exactly the subjects with an observed score
SubjectFormula ==
    /\ DOMAIN response.subject_percentiles
           = {subject \in AllSubjects(mock_sessions) : Observed(subject) # <<>>}
    /\ \A subject \in DOMAIN response.subject_percentiles :
           \E factor \in ClaimedFactors(Observed(subject)) :
               response.subject_percentiles[subject].value
                   = Max(0, Min(100000,
                         (ClaimedBase(Observed(subject)) * factor) \div 10000
                             + ClaimedBias(subject)))

\* C26 as stated: in the full pipeline each subject prediction is
\* clamp(base * factor + bias, 0, 100), with factor 0.95 for a single sample
\* and in [0.9, 1] for 2 or more and the bias of the subject key, and it
\* never exceeds base + bias.
C26_SubjectNeverExceeds ==
    (path = "full" /\ response.kind = "result") =>
        /\ SubjectFormula
        /\ \A subject \in DOMAIN response.subject_percentiles :
               response.subject_percentiles[subject].value
                   <= ClaimedBase(Observed(subject)) + ClaimedBias(subject)

\* C26 as amended: in the full pipeline each subject prediction is
\* clamp(base * factor + bias, 0, 100) with the same factor and bias, and it
\* never exceeds max(0, base + bias): the clamp lifts a negative
\* base * factor + bias to 0.
C26_SubjectFormulaFloored ==
    (path = "full" /\ response.kind = "result") =>
        /\ SubjectFormula
        /\ \A subject \in DOMAIN response.subject_percentiles :
               response.subject_percentiles[subject].value
                   <= Max(0, ClaimedBase(Observed(subject)) + ClaimedBias(subject))

\* C26 witness: a full-pipeline result in which one subject with 3 or more
\* samples is predicted strictly between 0 and base + bias, and another is
\* predicted 0 although its base + bias is negative.
C26_Witness ==
    /\ path = "full"
    /\ response.kind = "result"
    /\ \E subject \in DOMAIN response.subject_percentiles :
           /\ Len(Observed(subject)) >= 3
           /\ response.subject_percentiles[subject].value > 0
           /\ response.subject_percentiles[subject].value
                  < ClaimedBase(Observed(subject)) + ClaimedBias(subject)
    /\ \E subject \in DOMAIN response.subject_percentiles :
           /\ response.subject_percentiles[subject].value = 0
           /\ ClaimedBase(Observed(subject)) + ClaimedBias(subject) < 0

\* C27: in the full pipeline the consistency score of the fetched history is
\* 0.5 when fewer than 2 attempts carry an overall percentage, 0.1 when 2 or
\* more carry one and their mean is 0 (all scores 0), and lies in [0, 1]
\* otherwise.
C27_ConsistencyAsStated ==
    path = "full" =>
        LET carried == PresentScores(mock_sessions)
            consistency == calculate_consistency_score(mock_sessions)
        IN  /\ Len(carried) < 2 => consistency = 500
            /\ (Len(carried) >= 2 /\ SumSeq(carried) = 0) => consistency = 100
            /\ consistency \in 0..1000

\* the attempts of h whose overall percentage is exactly 0
ZeroIndices(h) == {i \in 1..Len(h) : h[i].percentage_score = 0}

\* h with the overall percentage of attempt i made absent
WithoutScore(h, i) == [h EXCEPT ![i] = [@ EXCEPT !.percentage_score = None]]

\* C28: an attempt whose overall percentage is exactly 0 is treated exactly
\* like an attempt without one: replacing a 0 percentage of the fetched
\* history by an absent one leaves what generate_prediction returns (or
\* raises) unchanged, on the preliminary path and in the full pipeline.
C28_ZeroLikeAbsent ==
    Served =>
        \A i \in ZeroIndices(mock_sessions) :
            /\ \A order \in SubjectOrders(AllSubjects(mock_sessions)) :
                   generate_prediction(WithoutScore(mock_sessions, i), now,
                                       target_exam, order)
                       = generate_prediction(mock_sessions, now, target_exam, order)
            /\ \E order \in SubjectOrders(AllSubjects(mock_sessions)) :
                   generate_prediction(WithoutScore(mock_sessions, i), now,
                                       target_exam, order).response = response

\* C28 witness: the full pipeline returned a trend computed from both
\* windows for a history that holds a 0 percentage.
C28_Witness ==
    /\ path = "full"
    /\ response.kind = "result"
    /\ ZeroIndices(mock_sessions) # {}
    /\ response.performance_trend \in {"improving", "declining", "stable"}

\* a stored prediction that the preliminary path produced: it carries the
\* fixed suggestions of that path
FromPreliminary(document) ==
    /\ document.improvement_suggestions # <<>>
    /\ document.improvement_suggestions[1].kind
           \in {"take_more_mock_tests", "take_3_more_mock_tests"}

\* C29: a leaderboard read at the default threshold 0.5 never contains a
\* prediction that the preliminary path produced (fewer than 3 attempts at
\* generation time): those are stored with confidence 0.1 or 0.3.
C29_NoPreliminaryOnBoard ==
    /\ \A i \in 1..Len(predictions) :
           FromPreliminary(predictions[i])
               => predictions[i].percentile_confidence \in {1000, 3000}
    /\ (listing.kind = "leaderboard" /\ listing.min_confidence = 5000) =>
           \A k \in 1..Len(listing.items) : ~FromPreliminary(listing.items[k])

\* C29 witness: a non-empty leaderboard at threshold 0.5 for an exam for
\* which a preliminary prediction is stored as well.
C29_Witness ==
    /\ listing.kind = "leaderboard"
    /\ listing.min_confidence = 5000
    /\ listing.items # <<>>
    /\ \E i \in 1..Len(predictions) :
           /\ predictions[i].target_exam = listing.target_exam
           /\ FromPreliminary(predictions[i])

====
